---- MODULE Spec2Model ----
(***************************************************************************)
(* State-machine model of StableDiffusionLoRASetup                         *)
(* (src/modules/modelSetup/StableDiffusionLoRASetup.py): adapter           *)
(* installation, the gradient gate, parameter-group assembly, device       *)
(* placement and learning-rate reporting, as driven by a training loop.    *)
(***************************************************************************)
EXTENDS Integers, Sequences, FiniteSets, TLC

VARIABLES config, debug_mode, model, call, setup_done

vars == <<config, debug_mode, model, call, setup_done>>

\* ---- bounds ------------------------------------------------------------
MaxProgress == 2     \* train_progress.global_step ranges over 0..MaxProgress
MaxStop == 1         \* configured stop steps range over 0..MaxStop
MaxLr == 2           \* learning rates range over 1..MaxLr
MaxLrs == 3          \* the scheduler returns at most MaxLrs learning rates
MaxD == 2            \* adaptive-optimizer factor ranges over 1..MaxD

None == "None"
Unset == -1          \* stop_training_after not configured

Progress == 0..MaxProgress
StopSteps == {Unset} \cup (0..MaxStop)
LearningRates == 1..MaxLr

\* Parameter tensors, by owner: the base weights of the text encoder, the
\* low-rank matrices of adapter "lora_te", the base weights of the unet, the
\* low-rank matrices of adapter "lora_unet", and the VAE weights.
Params == {"text_encoder", "text_encoder_lora", "unet", "unet_lora", "vae"}

RECURSIVE SeqsUpTo(_, _)
SeqsUpTo(S, n) ==
    IF n = 0 THEN {<<>>}
    ELSE LET shorter == SeqsUpTo(S, n - 1)
         IN  shorter \cup {Append(s, x) : s \in {t \in shorter : Len(t) = n - 1}, x \in S}

\* ---- collaborators -----------------------------------------------------

\* stop_*_training_elapsed of the base setup: the configured stop step of
\* the sub-network has been reached by the given progress.
stop_training_elapsed(stop_training_after, train_progress) ==
    /\ stop_training_after # Unset
    /\ train_progress >= stop_training_after

stop_text_encoder_training_elapsed(cfg, train_progress) ==
    stop_training_elapsed(cfg.text_encoder.stop_training_after, train_progress)

stop_unet_training_elapsed(cfg, train_progress) ==
    stop_training_elapsed(cfg.unet.stop_training_after, train_progress)

\* create_param_groups of the base setup: one group holding the given
\* parameters tagged with the given learning rate.
create_param_groups(params, lr) == [params |-> params, lr |-> lr]

\* Optimizer.maybe_adjust_lrs: scales every learning rate by the optimizer's
\* adaptive factor d (d = 1 for a non-adaptive optimizer).
maybe_adjust_lrs(lrs, d) == [i \in DOMAIN lrs |-> lrs[i] * d]

\* ---- torch / peft module semantics --------------------------------------

\* Module.parameters() of each module of the model.  get_peft_model injects
\* the low-rank matrices into the base network in place and returns a view
\* that contains that base network: the view's parameters are the base
\* weights together with the low-rank matrices.
parameters(m, module) ==
    CASE module = "text_encoder" ->
            {"text_encoder"} \cup
            (IF m.text_encoder_lora # None THEN {"text_encoder_lora"} ELSE {})
      [] module = "unet" ->
            {"unet"} \cup (IF m.unet_lora # None THEN {"unet_lora"} ELSE {})
      [] module = "vae" -> {"vae"}
      [] module = "text_encoder_lora" -> {"text_encoder", "text_encoder_lora"}
      [] module = "unet_lora" -> {"unet", "unet_lora"}

\* Module.requires_grad_(flag): sets the flag of every parameter of the module.
requires_grad_(m, module, flag) ==
    [m EXCEPT !.requires_grad =
        [p \in Params |-> IF p \in parameters(m, module) THEN flag ELSE @[p]]]

\* ---- the gate -----------------------------------------------------------

\* variant: the stop step is not consulted
train_text_encoder_ignoring_stop(m, cfg) == cfg.text_encoder.train

train_text_encoder(m, cfg) ==
    cfg.text_encoder.train /\ ~stop_text_encoder_training_elapsed(cfg, m.train_progress)

train_unet(m, cfg) ==
    cfg.unet.train /\ ~stop_unet_training_elapsed(cfg, m.train_progress)

\* ---- create_parameters / create_parameters_for_optimizer ----------------

\* A train flag refers to an adapter view that is None: the attribute access
\* model.<x>_lora.parameters() raises AttributeError.
dereferences_none(m, cfg) ==
    \/ cfg.text_encoder.train /\ m.text_encoder_lora = None
    \/ cfg.unet.train /\ m.unet_lora = None

create_parameters(m, cfg) ==
    (IF cfg.text_encoder.train THEN <<"text_encoder", "text_encoder_lora">> ELSE <<>>)
    \o (IF cfg.unet.train THEN <<"unet", "unet_lora">> ELSE <<>>)

\* variant: the unet group is appended first
create_parameters_for_optimizer_unet_first(m, cfg) ==
    (IF cfg.unet.train
        THEN <<create_param_groups("unet_lora", cfg.unet.learning_rate)>>
        ELSE <<>>)
    \o (IF cfg.text_encoder.train
        THEN <<create_param_groups("text_encoder_lora", cfg.text_encoder.learning_rate)>>
        ELSE <<>>)

create_parameters_for_optimizer(m, cfg) ==
    (IF cfg.text_encoder.train
        THEN <<create_param_groups("text_encoder_lora", cfg.text_encoder.learning_rate)>>
        ELSE <<>>)
    \o (IF cfg.unet.train
        THEN <<create_param_groups("unet_lora", cfg.unet.learning_rate)>>
        ELSE <<>>)

\* ---- bookkeeping of the last call ---------------------------------------
NoCall == [op |-> "none", raised |-> FALSE, error |-> "none", arg |-> 0,
           lrs |-> <<>>, result |-> <<>>]

Returned(op) == [NoCall EXCEPT !.op = op]
Raised(op, error) == [NoCall EXCEPT !.op = op, !.raised = TRUE, !.error = error]

\* ---- initial state ------------------------------------------------------
SubConfig == [train : BOOLEAN, learning_rate : LearningRates,
              stop_training_after : StopSteps]

InitModel ==
    \E te \in {None, "lora_te"}, un \in {None, "lora_unet"}, tp \in Progress :
        model = [text_encoder_lora |-> te,
                 unet_lora |-> un,
                 adapters |-> [text_encoder |-> IF te = None THEN 0 ELSE 1,
                               unet |-> IF un = None THEN 0 ELSE 1],
                 requires_grad |-> [p \in Params |->
                       CASE p = "text_encoder_lora" -> te # None
                         [] p = "unet_lora" -> un # None
                         [] OTHER -> TRUE],
                 lora_dtype |-> [text_encoder |-> "loaded", unet |-> "loaded"],
                 noise_scheduler |-> "loaded",
                 train_progress |-> tp,
                 has_state_dicts |-> TRUE,
                 optimizer |-> None,
                 ema |-> None,
                 training |-> [text_encoder |-> TRUE, unet |-> TRUE, vae |-> TRUE],
                 device |-> [text_encoder |-> "cpu", vae |-> "cpu",
                             unet |-> "cpu", depth_estimator |-> "cpu"]]

\* Training run: the fields read by setup_model, after_optimizer_step and the
\* parameter builders vary; the placement flags are not read by them.
Init ==
    /\ config \in [text_encoder : SubConfig, unet : SubConfig,
                   align_prop : {FALSE}, latent_caching : {TRUE},
                   rescale_noise_scheduler_to_zero_terminal_snr : BOOLEAN]
    /\ debug_mode = FALSE
    /\ InitModel
    /\ call = NoCall
    /\ setup_done = FALSE

\* Device placement: the fields read by setup_train_device and by the gate vary.
InitDevice ==
    /\ config \in [text_encoder : [train : BOOLEAN, learning_rate : {1},
                                   stop_training_after : StopSteps],
                   unet : [train : BOOLEAN, learning_rate : {1},
                           stop_training_after : StopSteps],
                   align_prop : BOOLEAN, latent_caching : BOOLEAN,
                   rescale_noise_scheduler_to_zero_terminal_snr : {FALSE}]
    /\ debug_mode \in BOOLEAN
    /\ InitModel
    /\ call = NoCall
    /\ setup_done = FALSE

\* Reporting: the fields read by report_learning_rates vary.
InitReport ==
    /\ config \in [text_encoder : [train : BOOLEAN, learning_rate : LearningRates,
                                   stop_training_after : {Unset}],
                   unet : [train : BOOLEAN, learning_rate : LearningRates,
                           stop_training_after : {Unset}],
                   align_prop : {FALSE}, latent_caching : {TRUE},
                   rescale_noise_scheduler_to_zero_terminal_snr : {FALSE}]
    /\ debug_mode = FALSE
    /\ InitModel
    /\ call = NoCall
    /\ setup_done = FALSE

\* ---- setup_model --------------------------------------------------------
\* variant: no check for an adapter that is already installed
install_text_encoder_lora_unchecked(m) ==
    [m EXCEPT !.text_encoder_lora = "lora_te",
              !.adapters.text_encoder = @ + 1,
              !.requires_grad["text_encoder_lora"] = TRUE]

install_text_encoder_lora(m) ==
    IF m.text_encoder_lora = None
        THEN [m EXCEPT !.text_encoder_lora = "lora_te",
                       !.adapters.text_encoder = @ + 1,
                       !.requires_grad["text_encoder_lora"] = TRUE]
        ELSE m

install_unet_lora(m) ==
    IF m.unet_lora = None
        THEN [m EXCEPT !.unet_lora = "lora_unet",
                       !.adapters.unet = @ + 1,
                       !.requires_grad["unet_lora"] = TRUE]
        ELSE m

freeze_base(m) ==
    requires_grad_(requires_grad_(requires_grad_(m, "text_encoder", FALSE),
                                  "unet", FALSE), "vae", FALSE)

gate_text_encoder(m, cfg) ==
    IF m.text_encoder_lora # None
        THEN requires_grad_(m, "text_encoder_lora", train_text_encoder(m, cfg))
        ELSE m

gate_unet(m, cfg) ==
    IF m.unet_lora # None
        THEN requires_grad_(m, "unet_lora", train_unet(m, cfg))
        ELSE m

cast_lora(m) ==
    [m EXCEPT !.lora_dtype = [text_encoder |-> "lora_weight_dtype",
                              unet |-> "lora_weight_dtype"]]

rescale(m, cfg) ==
    IF cfg.rescale_noise_scheduler_to_zero_terminal_snr
        THEN [m EXCEPT !.noise_scheduler = "zero_terminal_snr_v_prediction"]
        ELSE m

SetupModel ==
    LET m1 == install_unet_lora(install_text_encoder_lora(model))
        m2 == freeze_base(m1)
        m3 == gate_unet(gate_text_encoder(m2, config), config)
        m4 == rescale(cast_lora(m3), config)
    IN  /\ IF m4.has_state_dicts
             THEN /\ model' = [m4 EXCEPT
                        !.optimizer = create_parameters_for_optimizer(m4, config),
                        !.ema = create_parameters(m4, config),
                        !.has_state_dicts = FALSE]
                  /\ call' = Returned("setup_model")
             ELSE /\ model' = m4
                  /\ call' = Raised("setup_model", "AttributeError: optimizer_state_dict")
        /\ setup_done' = TRUE
        /\ UNCHANGED <<config, debug_mode>>

\* ---- setup_train_device -------------------------------------------------
\* variant: latent caching is not consulted for the text encoder
SetupTrainDevice_ignoring_latent_caching ==
    LET vae_on_train_device == debug_mode \/ config.align_prop
        text_encoder_on_train_device == config.text_encoder.train \/ config.align_prop
    IN  /\ model' = [model EXCEPT
              !.device = [text_encoder |-> IF text_encoder_on_train_device
                                              THEN "train_device" ELSE "temp_device",
                          vae |-> IF vae_on_train_device
                                     THEN "train_device" ELSE "temp_device",
                          unet |-> "train_device",
                          depth_estimator |-> "temp_device"],
              !.training = [text_encoder |-> config.text_encoder.train,
                            vae |-> FALSE,
                            unet |-> config.unet.train]]
        /\ call' = Returned("setup_train_device")
        /\ UNCHANGED <<config, debug_mode, setup_done>>

SetupTrainDevice ==
    LET vae_on_train_device == debug_mode \/ config.align_prop
        text_encoder_on_train_device ==
            config.text_encoder.train \/ config.align_prop \/ ~config.latent_caching
    IN  /\ model' = [model EXCEPT
              !.device = [text_encoder |-> IF text_encoder_on_train_device
                                              THEN "train_device" ELSE "temp_device",
                          vae |-> IF vae_on_train_device
                                     THEN "train_device" ELSE "temp_device",
                          unet |-> "train_device",
                          depth_estimator |-> "temp_device"],
              !.training = [text_encoder |-> config.text_encoder.train,
                            vae |-> FALSE,
                            unet |-> config.unet.train]]
        /\ call' = Returned("setup_train_device")
        /\ UNCHANGED <<config, debug_mode, setup_done>>

\* ---- after_optimizer_step -----------------------------------------------
\* variant: the gate is evaluated at the argument, not at model.train_progress
after_optimizer_step_at_argument(m, cfg, train_progress) ==
    LET at == [m EXCEPT !.train_progress = train_progress]
        m1 == IF m.text_encoder_lora # None
                 THEN requires_grad_(m, "text_encoder_lora", train_text_encoder(at, cfg))
                 ELSE m
    IN  IF m1.unet_lora # None
           THEN requires_grad_(m1, "unet_lora", train_unet(at, cfg))
           ELSE m1

\* variant: only the text encoder's gate is re-applied
after_optimizer_step_text_encoder_only(m, cfg, train_progress) ==
    gate_text_encoder(m, cfg)

after_optimizer_step(m, cfg, train_progress) ==
    gate_unet(gate_text_encoder(m, cfg), cfg)

AfterOptimizerStep ==
    \E train_progress \in Progress :
        /\ model' = after_optimizer_step(model, config, train_progress)
        /\ call' = [Returned("after_optimizer_step") EXCEPT !.arg = train_progress]
        /\ UNCHANGED <<config, debug_mode, setup_done>>

\* ---- create_parameters / create_parameters_for_optimizer as calls -------
CreateParameters ==
    /\ call' = IF dereferences_none(model, config)
                  THEN Raised("create_parameters", "AttributeError: NoneType")
                  ELSE [Returned("create_parameters") EXCEPT
                            !.result = create_parameters(model, config)]
    /\ UNCHANGED <<config, debug_mode, model, setup_done>>

CreateParametersForOptimizer ==
    /\ call' = IF dereferences_none(model, config)
                  THEN Raised("create_parameters_for_optimizer", "AttributeError: NoneType")
                  ELSE [Returned("create_parameters_for_optimizer") EXCEPT
                            !.result = create_parameters_for_optimizer(model, config)]
    /\ UNCHANGED <<config, debug_mode, model, setup_done>>

\* ---- report_learning_rates ----------------------------------------------
names(cfg) ==
    (IF cfg.text_encoder.train THEN <<"te">> ELSE <<>>)
    \o (IF cfg.unet.train THEN <<"unet">> ELSE <<>>)

Min(a, b) == IF a < b THEN a ELSE b

\* zip(names, lrs) followed by one add_scalar per pair
add_scalars(ns, lrs, global_step) ==
    [i \in 1..Min(Len(ns), Len(lrs)) |->
        [tag |-> ns[i], value |-> lrs[i], step |-> global_step]]

\* variant: no assertion on the number of learning rates
report_learning_rates_unasserted(m, cfg, lrs, d) ==
    [Returned("report_learning_rates") EXCEPT
        !.lrs = lrs,
        !.result = add_scalars(names(cfg), maybe_adjust_lrs(lrs, d), m.train_progress)]

report_learning_rates(m, cfg, lrs, d) ==
    IF Len(lrs) = Len(names(cfg))
        THEN [Returned("report_learning_rates") EXCEPT
                 !.lrs = lrs,
                 !.result = add_scalars(names(cfg), maybe_adjust_lrs(lrs, d),
                                        m.train_progress)]
        ELSE [Raised("report_learning_rates", "AssertionError") EXCEPT !.lrs = lrs]

ReportLearningRates ==
    \E lrs \in SeqsUpTo(LearningRates, MaxLrs), d \in 1..MaxD :
        /\ call' = report_learning_rates(model, config, lrs, d)
        /\ UNCHANGED <<config, debug_mode, model, setup_done>>

\* ---- the training loop advances train_progress ---------------------------
NextStep ==
    /\ model.train_progress < MaxProgress
    /\ model' = [model EXCEPT !.train_progress = @ + 1]
    /\ call' = Returned("next_step")
    /\ UNCHANGED <<config, debug_mode, setup_done>>

Next ==
    \/ SetupModel
    \/ AfterOptimizerStep
    \/ CreateParameters
    \/ CreateParametersForOptimizer
    \/ NextStep

Spec == Init /\ [][Next]_vars

NextDevice ==
    \/ SetupModel
    \/ SetupTrainDevice
    \/ NextStep

SpecDevice == InitDevice /\ [][NextDevice]_vars

NextReport ==
    \/ SetupModel
    \/ ReportLearningRates
    \/ NextStep

SpecReport == InitReport /\ [][NextReport]_vars

\* =========================================================================
\* Properties
\* =========================================================================
Subs == {"text_encoder", "unet"}
View(m, sub) == IF sub = "text_encoder" THEN m.text_encoder_lora ELSE m.unet_lora
Lora(sub) == IF sub = "text_encoder" THEN "text_encoder_lora" ELSE "unet_lora"
Sub(cfg, sub) == IF sub = "text_encoder" THEN cfg.text_encoder ELSE cfg.unet
Elapsed(cfg, sub, tp) ==
    /\ Sub(cfg, sub).stop_training_after # Unset
    /\ tp >= Sub(cfg, sub).stop_training_after

\* C1: once setup_model has run, every parameter of the base text encoder,
\* the base unet and the VAE has requires_grad = False, in every later state.
C1_BaseFrozen ==
    setup_done =>
        /\ ~model.requires_grad["text_encoder"]
        /\ ~model.requires_grad["unet"]
        /\ ~model.requires_grad["vae"]

\* C2: for each sub-network, whenever a gate has just been applied (by
\* setup_model or after_optimizer_step) with train progress past the
\* configured stop step, the adapter's gradient flag is false; and a flag
\* that is false is never set back to true by a later step.
C2_PastStopOff ==
    \A sub \in Subs :
        ( /\ call.op \in {"setup_model", "after_optimizer_step"}
          /\ View(model, sub) # None
          /\ Sub(config, sub).stop_training_after # Unset
          /\ model.train_progress > Sub(config, sub).stop_training_after )
        => ~model.requires_grad[Lora(sub)]

C2_NeverBackOn ==
    \A sub \in Subs :
        (View(model, sub) # None /\ ~model.requires_grad[Lora(sub)])
        => ~model'.requires_grad[Lora(sub)]

C2_OneWayGate == [](C2_PastStopOff) /\ [][C2_NeverBackOn]_vars

C2_Witness ==
    /\ setup_done
    /\ call.op = "after_optimizer_step"
    /\ config.text_encoder.train
    /\ config.text_encoder.stop_training_after > 0
    /\ model.train_progress > config.text_encoder.stop_training_after
    /\ ~model.requires_grad["text_encoder_lora"]

\* C3: right after setup_model and right after every after_optimizer_step,
\* the gradient flag of each present adapter view equals
\* (train flag AND NOT stop-training-elapsed at model.train_progress).
C3_FlagEqualsGate ==
    call.op \in {"setup_model", "after_optimizer_step"} =>
        \A sub \in Subs :
            View(model, sub) # None =>
                model.requires_grad[Lora(sub)] =
                    (Sub(config, sub).train /\ ~Elapsed(config, sub, model.train_progress))

C3_Witness ==
    /\ call.op = "after_optimizer_step"
    /\ setup_done
    /\ config.text_encoder.train
    /\ Elapsed(config, "text_encoder", model.train_progress)
    /\ ~model.requires_grad["text_encoder_lora"]
    /\ config.unet.train
    /\ config.unet.stop_training_after = Unset
    /\ model.train_progress > 0
    /\ model.requires_grad["unet_lora"]

\* C4: a setup_model call leaves an adapter view that is already present as
\* it is (no new adapter, no second wrapping), per sub-network, and after
\* the call each sub-network has exactly one adapter view.
C4_Step ==
    call'.op = "setup_model" =>
        \A sub \in Subs :
            /\ View(model, sub) # None =>
                  /\ View(model', sub) = View(model, sub)
                  /\ model'.adapters[sub] = model.adapters[sub]
            /\ View(model', sub) # None
            /\ model'.adapters[sub] = 1

C4_InstallIdempotent == [][C4_Step]_vars

C4_Witness ==
    /\ call.op = "setup_model"
    /\ call.raised
    /\ model.adapters = [text_encoder |-> 1, unet |-> 1]

\* C5: report_learning_rates raises exactly when the number of scheduler
\* learning rates differs from the number of names ("te" if
\* text_encoder.train, then "unet" if unet.train); otherwise it writes
\* exactly one scalar per name, in order.
C5_ExpectedNames ==
    (IF config.text_encoder.train THEN <<"te">> ELSE <<>>)
    \o (IF config.unet.train THEN <<"unet">> ELSE <<>>)

C5_ReportCounts ==
    call.op = "report_learning_rates" =>
        /\ call.raised <=> (Len(call.lrs) # Len(C5_ExpectedNames))
        /\ call.raised => call.result = <<>>
        /\ ~call.raised =>
              /\ Len(call.result) = Len(C5_ExpectedNames)
              /\ \A i \in 1..Len(C5_ExpectedNames) :
                    call.result[i].tag = C5_ExpectedNames[i]

C5_Witness ==
    /\ call.op = "report_learning_rates"
    /\ ~call.raised
    /\ Len(call.lrs) = 2
    /\ Len(call.result) = 2

\* C6: whenever create_parameters_for_optimizer returns, its result is the
\* text encoder adapter's group with the text encoder learning rate if
\* text_encoder.train, followed by the unet adapter's group with the unet
\* learning rate if unet.train; it is empty when both flags are false and
\* matches the names of report_learning_rates position by position.
C6_AdapterOf(name) == IF name = "te" THEN "text_encoder_lora" ELSE "unet_lora"

C6_GroupsMatchConfig ==
    (call.op = "create_parameters_for_optimizer" /\ ~call.raised) =>
        /\ call.result =
              (IF config.text_encoder.train
                  THEN <<[params |-> "text_encoder_lora",
                          lr |-> config.text_encoder.learning_rate]>>
                  ELSE <<>>)
              \o (IF config.unet.train
                  THEN <<[params |-> "unet_lora", lr |-> config.unet.learning_rate]>>
                  ELSE <<>>)
        /\ (~config.text_encoder.train /\ ~config.unet.train) => call.result = <<>>
        /\ Len(call.result) = Len(names(config))
        /\ \A i \in 1..Len(call.result) :
              call.result[i].params = C6_AdapterOf(names(config)[i])

C6_Witness ==
    /\ call.op = "create_parameters_for_optimizer"
    /\ ~call.raised
    /\ Len(call.result) = 2
    /\ config.text_encoder.learning_rate # config.unet.learning_rate

\* C7: setup_train_device places the VAE on the train device iff
\* (debug_mode OR align_prop), the text encoder on the train device iff
\* (text_encoder.train OR align_prop OR NOT latent_caching), the unet on the
\* train device and the depth estimator on the temp device.
C7_Placement ==
    call.op = "setup_train_device" =>
        /\ model.device.vae =
              (IF debug_mode \/ config.align_prop THEN "train_device" ELSE "temp_device")
        /\ model.device.text_encoder =
              (IF config.text_encoder.train \/ config.align_prop \/ ~config.latent_caching
                  THEN "train_device" ELSE "temp_device")
        /\ model.device.unet = "train_device"
        /\ model.device.depth_estimator = "temp_device"

C7_Witness ==
    /\ call.op = "setup_train_device"
    /\ ~config.text_encoder.train
    /\ ~config.align_prop
    /\ ~config.latent_caching
    /\ ~debug_mode
    /\ model.device.text_encoder = "train_device"
    /\ model.device.vae = "temp_device"

\* C8: setup_train_device puts each sub-network that is trainable (train
\* flag set and stop step not elapsed) in training mode, each frozen one in
\* evaluation mode, and the VAE in evaluation mode.
C8_ModesFollowGate ==
    call.op = "setup_train_device" =>
        /\ model.training.text_encoder =
              (config.text_encoder.train
                  /\ ~Elapsed(config, "text_encoder", model.train_progress))
        /\ model.training.unet =
              (config.unet.train /\ ~Elapsed(config, "unet", model.train_progress))
        /\ ~model.training.vae

\* C9: no call fails on an absent adapter view; after_optimizer_step on a
\* model with an absent view returns, leaves that sub-network's gradient
\* flags unchanged and applies the gate to the other view when present.
C9_Step ==
    /\ call'.error # "AttributeError: NoneType"
    /\ call'.op = "after_optimizer_step" =>
          /\ ~call'.raised
          /\ \A sub \in Subs :
                IF View(model, sub) = None
                   THEN /\ model'.requires_grad[sub] = model.requires_grad[sub]
                        /\ model'.requires_grad[Lora(sub)] = model.requires_grad[Lora(sub)]
                   ELSE model'.requires_grad[Lora(sub)] =
                          (Sub(config, sub).train
                              /\ ~Elapsed(config, sub, model.train_progress))

C9_AbsentViewGuarded == [][C9_Step]_vars

\* C10: the state after_optimizer_step produces does not depend on its
\* train_progress argument: from any reachable model and config, any two
\* arguments give the same resulting model.
C10_ArgumentIgnored ==
    \A a1, a2 \in Progress :
        after_optimizer_step(model, config, a1) = after_optimizer_step(model, config, a2)

C10_Witness ==
    /\ call.op = "after_optimizer_step"
    /\ call.arg # model.train_progress
    /\ model.text_encoder_lora # None
    /\ config.text_encoder.train
    /\ Elapsed(config, "text_encoder", call.arg)
    /\ ~Elapsed(config, "text_encoder", model.train_progress)
    /\ model.requires_grad["text_encoder_lora"]

====
